---- MODULE Spec2Model ----
(***************************************************************************)
(* Model of the answer-resolution pipeline of src/lib/dns/server.ts:       *)
(* static records -> registry middleware -> (dev only) forwarder.          *)
(* One request is followed through the middleware chain.  Domain names are *)
(* sequences of labels (the name split at its dots); a label may be the    *)
(* empty string.                                                           *)
(***************************************************************************)
EXTENDS Integers, Sequences, FiniteSets, TLC

VARIABLES
    dev,          \* $app/environment dev flag
    systemServers,     \* the process-wide resolver list, dns.getServers()
    defaultDnsServers, \* the list captured at startup in dev mode
    selfIps,      \* result of the startup dns.resolveNs(appDomain)
    registry,     \* redis: key -> string value, for the keys that exist
    questions,    \* req.packet.questions
    answers,      \* res.packet.answers
    pc,           \* position of the request in the middleware chain
    call,         \* per question: state of the redis / upstream call of the running stage
    results,      \* per question: state of the promise handed to Promise.all
    nextCalls,    \* per stage: how many times it invoked next()
    ran,          \* stages whose body ran past its "already answered" guard
    redisCalls,   \* redis commands issued for this request
    upstreamCalls \* resolver.resolve calls issued for this request

vars == <<dev, systemServers, defaultDnsServers, selfIps, registry, questions, answers, pc, call, results,
          nextCalls, ran, redisCalls, upstreamCalls>>

\* ---------------------------------------------------------------- bounds
MaxQuestions == 2

\* ------------------------------------------------------- configuration
REDIS_USER_PREFIX == "weird:users:"

\* pubenv.PUBLIC_USER_DOMAIN_PARENT.split(':')[0], as labels
ParentDomain == <<"users", "example", "com">>

\* pubenv.PUBLIC_DOMAIN.split(':')[0], as labels
appDomain == <<"example", "com">>

localServer == "127.0.0.1:53"

TxtTtl == 0
ATtl == 300
ForwardTtl == 300
StaticTtl == 300

Stages == {"static", "registry", "forwarder"}

\* ------------------------------------------------------------- inputs
Users == {"alice", "bob"}
Values == {"", "pk123"}

TxtNameOf(u) == <<"_weird", u>> \o ParentDomain
ANameOf(u) == <<u>> \o ParentDomain

Question(n, t) == [name |-> n, type |-> t]

QuestionPool ==
    { Question(TxtNameOf("alice"), "TXT"),
      Question(TxtNameOf("bob"), "TXT"),
      Question(ANameOf("alice"), "A"),
      Question(ANameOf("bob"), "A"),
      Question(appDomain, "A"),
      Question(<<"example", "org">>, "NS"),
      Question(<<"example", "org">>, "A"),
      Question(<<"_weird", "alice", "sub">> \o ParentDomain, "TXT"),
      Question(<<"alice", "other", "com">>, "A"),
      Question(<<"_other", "alice">> \o ParentDomain, "TXT"),
      Question(<<"_weird">> \o ParentDomain, "TXT"),
      Question(TxtNameOf(""), "TXT"),
      Question(ANameOf(""), "A"),
      Question(ANameOf("alice"), "MX") }

Requests == UNION { [1..n -> QuestionPool] : n \in 0..MaxQuestions }

RedisKey(u) == <<REDIS_USER_PREFIX, u>>

Registries == UNION { [ { RedisKey(u) : u \in S } -> Values ] : S \in SUBSET Users }

\* what dns.getServers() returns before startDnsServer touches it
OriginalDnsServers == <<"8.8.8.8", "1.1.1.1">>

SelfIpChoices == { <<"127.0.0.1">>, <<"10.0.0.1", "10.0.0.2">> }

\* ------------------------------------------------------------ helpers
Answer(n, t, d, l) == [name |-> n, type |-> t, data |-> d, ttl |-> l]

RECURSIVE Flat(_)
Flat(ss) == IF ss = <<>> THEN <<>> ELSE Head(ss) \o Flat(Tail(ss))

IsPrefix(s, t) == Len(s) <= Len(t) /\ SubSeq(t, 1, Len(s)) = s

\* promise states
Unsettled == [st |-> "pending", val |-> <<>>]
Null == [st |-> "null", val |-> <<>>]
List(as) == [st |-> "list", val |-> as]

Idx == 1..Len(questions)

\* ---------------------------------------------------- pattern matcher
\* the capture group written .* instead of [^\.]*: it runs across dots, so
\* any number of labels may stand between _weird and the parent domain
MatchTxtAcrossDots(name) ==
    IF /\ Len(name) >= Len(ParentDomain) + 2
       /\ name[1] = "_weird"
       /\ SubSeq(name, Len(name) - Len(ParentDomain) + 1, Len(name)) = ParentDomain
    THEN <<name[2]>> ELSE <<>>

\* name.match(WEIRD_HOST_TXT_RECORD_REGEX)?.[1]: <<>> is undefined, <<u>> the
\* captured label.  [^\.]* captures exactly one label, which may be empty.
MatchTxt(name) ==
    IF /\ Len(name) = Len(ParentDomain) + 2
       /\ name[1] = "_weird"
       /\ SubSeq(name, 3, Len(name)) = ParentDomain
    THEN <<name[2]>> ELSE <<>>

\* name.match(WEIRD_HOST_A_RECORD_REGEX)?.[1]
MatchA(name) ==
    IF /\ Len(name) = Len(ParentDomain) + 1
       /\ SubSeq(name, 2, Len(name)) = ParentDomain
    THEN <<name[1]>> ELSE <<>>

\* the test written username === undefined
NoUsernameUndefinedOnly(m) == m = <<>>

\* !username : undefined and the empty string are both falsy
NoUsername(m) == m = <<>> \/ m[1] = ""

\* ------------------------------------------------------------ registry
\* redis.get(key): <<>> is null, <<v>> the stored string
RedisGet(key) == IF key \in DOMAIN registry THEN <<registry[key]>> ELSE <<>>

\* redis.exists(key): number of keys that exist
RedisExists(key) == IF key \in DOMAIN registry THEN 1 ELSE 0

\* ----------------------------------------------------- response object
\* res.answer(list) on the appendable response
ResAnswer(ans, new) == ans \o new

\* -------------------------------------------------------- static stage
\* staticRecords.set(appDomain, 'A', selfIps)
StaticLookup(q) ==
    IF q.name = appDomain /\ q.type = "A"
    THEN [k \in 1..Len(selfIps) |-> Answer(q.name, q.type, selfIps[k], StaticTtl)]
    ELSE <<>>

StaticAnswers == Flat([i \in Idx |-> StaticLookup(questions[i])])

\* the forwarder registered without the if (dev) around it
NextHandlerForwarderAlways(stage) ==
    CASE stage = "static" -> "registry"
      [] stage = "registry" -> "forwarder"
      [] stage = "forwarder" -> "end"

\* the handler after the given stage in registration order
NextHandler(stage) ==
    CASE stage = "static" -> "registry"
      [] stage = "registry" -> IF dev THEN "forwarder" ELSE "end"
      [] stage = "forwarder" -> "end"

Proceed(stage) == [nextCalls EXCEPT ![stage] = @ + 1]

StaticHandler ==
    /\ pc = "static"
    /\ answers' = (IF StaticAnswers = <<>> THEN answers ELSE ResAnswer(answers, StaticAnswers))
    /\ nextCalls' = Proceed("static")
    /\ pc' = NextHandler("static")
    /\ ran' = ran \cup {"static"}
    /\ UNCHANGED <<dev, systemServers, defaultDnsServers, selfIps, registry, questions, call, results, redisCalls, upstreamCalls>>

\* ------------------------------------------------------ registry stage
RegistrySkipNever(ans) == FALSE

\* if (res.packet.answers.length > 0) return next();
RegistrySkip(ans) == Len(ans) > 0

\* the username a question leads the registry stage to look up: <<>> when the
\* executor returns null before any await
RegistryUsername(q) ==
    CASE q.type = "TXT" -> IF NoUsername(MatchTxt(q.name)) THEN <<>> ELSE MatchTxt(q.name)
      [] q.type = "A" -> IF NoUsername(MatchA(q.name)) THEN <<>> ELSE MatchA(q.name)
      [] OTHER -> <<>>

RegistryCommand(q) ==
    [op |-> IF q.type = "TXT" THEN "get" ELSE "exists",
     key |-> RedisKey(RegistryUsername(q)[1])]

\* the test written pubkey === null
RegistryTxtResultStrictNull(name, type, pubkey) ==
    IF pubkey = <<>>
    THEN Null
    ELSE List(<<Answer(name, type, pubkey[1], TxtTtl)>>)

RegistryTxtResultNoNullCheck(name, type, pubkey) ==
    List(<<Answer(name, type, IF pubkey = <<>> THEN "null" ELSE pubkey[1], TxtTtl)>>)

\* case 'TXT' after the await: pubkey is <<>> (null) or <<v>>
RegistryTxtResult(name, type, pubkey) ==
    IF pubkey = <<>> \/ pubkey[1] = ""
    THEN Null
    ELSE List(<<Answer(name, type, pubkey[1], TxtTtl)>>)

RegistryAResultNoExistsCheck(name, type, exists) ==
    List([k \in 1..Len(selfIps) |-> Answer(name, type, selfIps[k], ATtl)])

\* case 'A' after the await
RegistryAResult(name, type, exists) ==
    IF exists = 0
    THEN Null
    ELSE List([k \in 1..Len(selfIps) |-> Answer(name, type, selfIps[k], ATtl)])

RegistryResult(q) ==
    IF q.type = "TXT"
    THEN RegistryTxtResult(q.name, q.type, RedisGet(RegistryCommand(q).key))
    ELSE RegistryAResult(q.name, q.type, RedisExists(RegistryCommand(q).key))

AnySettled(res) == \E i \in DOMAIN res : res[i].st # "pending"

\* Promise.all resolves once every promise has resolved
AllSettled(res) == \A i \in DOMAIN res : res[i].st # "pending"

\* the gather keeping the results only when every question has one
FilteredAllOrNothing(res) ==
    IF \E i \in DOMAIN res : res[i].st # "list"
    THEN <<>>
    ELSE Flat([i \in DOMAIN res |-> res[i].val])

\* results.filter((x) => !!x).map(...).flat()
Filtered(res) == Flat([i \in DOMAIN res |-> IF res[i].st = "list" THEN res[i].val ELSE <<>>])

\* the guard written as an assignment, res.packet.answers.length = 0: it
\* empties the answer list, is falsy, and the stage body runs
RegistryEnterTruncating ==
    /\ pc = "registry"
    /\ answers' = <<>>
    /\ call' = [i \in Idx |-> IF RegistryUsername(questions[i]) = <<>>
                              THEN "none" ELSE "pending"]
    /\ results' = [i \in Idx |-> IF RegistryUsername(questions[i]) = <<>>
                                 THEN Null ELSE Unsettled]
    /\ redisCalls' = redisCalls \cup
           { RegistryCommand(questions[i]) :
               i \in { j \in Idx : RegistryUsername(questions[j]) # <<>> } }
    /\ ran' = ran \cup {"registry"}
    /\ pc' = "registry_wait"
    /\ UNCHANGED <<dev, systemServers, defaultDnsServers, selfIps, registry, questions, nextCalls, upstreamCalls>>

RegistryEnter ==
    /\ pc = "registry"
    /\ IF RegistrySkip(answers)
       THEN /\ nextCalls' = Proceed("registry")
            /\ pc' = NextHandler("registry")
            /\ UNCHANGED <<call, results, ran, redisCalls>>
       ELSE /\ call' = [i \in Idx |-> IF RegistryUsername(questions[i]) = <<>>
                                      THEN "none" ELSE "pending"]
            /\ results' = [i \in Idx |-> IF RegistryUsername(questions[i]) = <<>>
                                         THEN Null ELSE Unsettled]
            /\ redisCalls' = redisCalls \cup
                   { RegistryCommand(questions[i]) :
                       i \in { j \in Idx : RegistryUsername(questions[j]) # <<>> } }
            /\ ran' = ran \cup {"registry"}
            /\ pc' = "registry_wait"
            /\ UNCHANGED nextCalls
    /\ UNCHANGED <<dev, systemServers, defaultDnsServers, selfIps, registry, questions, answers, upstreamCalls>>

\* the awaited redis command fulfils and the executor runs to its returnAnswers
RegistryLookupDone(i) ==
    /\ pc = "registry_wait"
    /\ call[i] = "pending"
    /\ call' = [call EXCEPT ![i] = "ok"]
    /\ results' = [results EXCEPT ![i] = RegistryResult(questions[i])]
    /\ UNCHANGED <<dev, systemServers, defaultDnsServers, selfIps, registry, questions, answers, pc, nextCalls, ran,
                   redisCalls, upstreamCalls>>

\* the awaited redis command rejects: the async executor throws, returnAnswers
\* is never called and the promise handed to Promise.all stays pending
RegistryLookupFail(i) ==
    /\ pc = "registry_wait"
    /\ call[i] = "pending"
    /\ call' = [call EXCEPT ![i] = "failed"]
    /\ UNCHANGED <<dev, systemServers, defaultDnsServers, selfIps, registry, questions, answers, pc, results, nextCalls, ran,
                   redisCalls, upstreamCalls>>

RegistryGather ==
    /\ pc = "registry_wait"
    /\ AllSettled(results)
    /\ answers' = (IF Len(Filtered(results)) > 0
                   THEN ResAnswer(answers, Filtered(results)) ELSE answers)
    /\ nextCalls' = Proceed("registry")
    /\ pc' = NextHandler("registry")
    /\ UNCHANGED <<dev, systemServers, defaultDnsServers, selfIps, registry, questions, call, results, ran,
                   redisCalls, upstreamCalls>>
\* ----------------------------------------------------- forwarder stage
\* dns.setServers([localServer]) run before dns.getServers()
DevStartupInstallFirst(orig) ==
    [captured |-> <<localServer>>, system |-> <<localServer>>]

\* const defaultDnsServers = dns.getServers(); dns.setServers([localServer]);
DevStartup(orig) ==
    [captured |-> orig, system |-> <<localServer>>]

\* resolver.setServers(defaultDnsServers); resolver.resolve(name, type, ...)
UpstreamCall(q) == [name |-> q.name, type |-> q.type, servers |-> defaultDnsServers]

ForwarderSkipNever(ans) == FALSE

\* if (res.packet.answers.length > 0) { return; }
ForwarderSkip(ans) == Len(ans) > 0

ResolveLastWins(p, v) == v

\* a promise's resolve function: only the first call has an effect
Resolve(p, v) == IF p.st = "pending" THEN v ELSE p

\* records the upstream resolvers return for a successful resolve
UpstreamRecords(name, type) ==
    IF type = "A" THEN <<"93.184.216.34">> ELSE <<"v=upstream">>

\* the error branch without its returnAnswers([]) call
ForwardResultErrorUnanswered(name, type, err) ==
    IF ~err
    THEN List([k \in 1..Len(UpstreamRecords(name, type)) |->
                 Answer(name, type, UpstreamRecords(name, type)[k], ForwardTtl)])
    ELSE Unsettled

\* callback of resolver.resolve
ForwardResult(name, type, err) ==
    IF ~err
    THEN List([k \in 1..Len(UpstreamRecords(name, type)) |->
                 Answer(name, type, UpstreamRecords(name, type)[k], ForwardTtl)])
    ELSE List(<<>>)

\* the synchronous part of the executor: case 'NS' has no break and falls
\* through to default
ForwarderSync(q) ==
    CASE q.type \in {"TXT", "A"} -> Unsettled
      [] q.type = "NS" ->
            Resolve(Resolve(Unsettled, List(<<Answer(q.name, q.type, localServer, ForwardTtl)>>)),
                    Null)
      [] OTHER -> Resolve(Unsettled, Null)

ForwarderEnter ==
    /\ pc = "forwarder"
    /\ IF ForwarderSkip(answers)
       THEN /\ pc' = "stopped"
            /\ UNCHANGED <<call, results, ran, upstreamCalls>>
       ELSE /\ call' = [i \in Idx |-> IF questions[i].type \in {"TXT", "A"}
                                      THEN "pending" ELSE "none"]
            /\ results' = [i \in Idx |-> ForwarderSync(questions[i])]
            /\ upstreamCalls' = upstreamCalls \cup
                   { UpstreamCall(questions[i]) :
                       i \in { j \in Idx : questions[j].type \in {"TXT", "A"} } }
            /\ ran' = ran \cup {"forwarder"}
            /\ pc' = "forwarder_wait"
    /\ UNCHANGED <<dev, systemServers, defaultDnsServers, selfIps, registry, questions, answers, nextCalls, redisCalls>>

ForwardLookupDone(i) ==
    /\ pc = "forwarder_wait"
    /\ call[i] = "pending"
    /\ call' = [call EXCEPT ![i] = "ok"]
    /\ results' = [results EXCEPT
                     ![i] = Resolve(@, ForwardResult(questions[i].name, questions[i].type, FALSE))]
    /\ UNCHANGED <<dev, systemServers, defaultDnsServers, selfIps, registry, questions, answers, pc, nextCalls, ran,
                   redisCalls, upstreamCalls>>

ForwardLookupFail(i) ==
    /\ pc = "forwarder_wait"
    /\ call[i] = "pending"
    /\ call' = [call EXCEPT ![i] = "failed"]
    /\ results' = [results EXCEPT
                     ![i] = Resolve(@, ForwardResult(questions[i].name, questions[i].type, TRUE))]
    /\ UNCHANGED <<dev, systemServers, defaultDnsServers, selfIps, registry, questions, answers, pc, nextCalls, ran,
                   redisCalls, upstreamCalls>>

ForwarderGather ==
    /\ pc = "forwarder_wait"
    /\ AllSettled(results)
    /\ answers' = ResAnswer(answers, Filtered(results))
    /\ nextCalls' = Proceed("forwarder")
    /\ pc' = NextHandler("forwarder")
    /\ UNCHANGED <<dev, systemServers, defaultDnsServers, selfIps, registry, questions, call, results, ran,
                   redisCalls, upstreamCalls>>

\* ------------------------------------------------------ specification
Init ==
    /\ dev \in BOOLEAN
    /\ systemServers = (IF dev THEN DevStartup(OriginalDnsServers).system
                        ELSE OriginalDnsServers)
    /\ defaultDnsServers = (IF dev THEN DevStartup(OriginalDnsServers).captured ELSE <<>>)
    /\ selfIps \in SelfIpChoices
    /\ registry \in Registries
    /\ questions \in Requests
    /\ answers = <<>>
    /\ pc = "static"
    /\ call = [i \in 1..Len(questions) |-> "none"]
    /\ results = [i \in 1..Len(questions) |-> Unsettled]
    /\ nextCalls = [s \in Stages |-> 0]
    /\ ran = {}
    /\ redisCalls = {}
    /\ upstreamCalls = {}

Next ==
    \/ StaticHandler
    \/ RegistryEnter
    \/ \E i \in Idx : RegistryLookupDone(i)
    \/ \E i \in Idx : RegistryLookupFail(i)
    \/ RegistryGather
    \/ ForwarderEnter
    \/ \E i \in Idx : ForwardLookupDone(i)
    \/ \E i \in Idx : ForwardLookupFail(i)
    \/ ForwarderGather

Spec == Init /\ [][Next]_vars

\* ============================================================== claims
Range(seq) == { seq[k] : k \in 1..Len(seq) }

\* the registry stage ran its body and has handed over; the forwarder has not
\* been entered yet
RegistryLeft == "registry" \in ran /\ pc \in {"forwarder", "end"} /\ "forwarder" \notin ran

ExpectedA(u) == [k \in 1..Len(selfIps) |-> Answer(ANameOf(u), "A", selfIps[k], 300)]

\* what the registry stage owes a question: the TXT proof of a registered user
\* with a non-empty value, the A records of a registered user, else nothing
ExpectedRegistryAnswers(q) ==
    IF \E u \in Users : /\ q = Question(TxtNameOf(u), "TXT")
                        /\ RedisKey(u) \in DOMAIN registry
                        /\ registry[RedisKey(u)] # ""
    THEN LET u == CHOOSE v \in Users : q = Question(TxtNameOf(v), "TXT")
         IN <<Answer(q.name, "TXT", registry[RedisKey(u)], 0)>>
    ELSE IF \E u \in Users : q = Question(ANameOf(u), "A") /\ RedisKey(u) \in DOMAIN registry
    THEN ExpectedA(CHOOSE v \in Users : q = Question(ANameOf(v), "A"))
    ELSE <<>>

StaticCount == Cardinality({ i \in Idx : StaticLookup(questions[i]) # <<>> })

Final == pc \in {"end", "stopped"}

\* C1: for every registered username U with proof value V (any V, the empty
\* string included), a request whose only question is (_weird.U.<parent>, TXT)
\* leaves the registry stage with exactly the answer {name, TXT, V, ttl 0}.
C1_RegisteredTxtAnswered ==
    \A u \in Users :
        (/\ RedisKey(u) \in DOMAIN registry
         /\ questions = <<Question(TxtNameOf(u), "TXT")>>
         /\ RegistryLeft)
        => answers = <<Answer(TxtNameOf(u), "TXT", registry[RedisKey(u)], 0)>>

\* C2: when the registry stage has run on a response without prior answers, an
\* A question for U.<parent> has one answer per self-IP, in self-IP order, with
\* ttl 300, if U's key exists, and no answer if it does not.
C2_ARecordPerSelfIp ==
    RegistryLeft =>
        \A i \in Idx : \A u \in Users :
            questions[i] = Question(ANameOf(u), "A") =>
                /\ results[i] = (IF RedisKey(u) \in DOMAIN registry
                                 THEN List(ExpectedA(u)) ELSE Null)
                /\ SelectSeq(answers, LAMBDA a : a.name = ANameOf(u) /\ a.type = "A")
                     = Flat([j \in Idx |-> IF questions[j] = questions[i]
                                                /\ RedisKey(u) \in DOMAIN registry
                                           THEN ExpectedA(u) ELSE <<>>])

C2_Witness ==
    /\ RegistryLeft
    /\ questions = <<Question(ANameOf("alice"), "A")>>
    /\ RedisKey("alice") \in DOMAIN registry
    /\ Len(selfIps) = 2
    /\ answers = ExpectedA("alice")

\* C3: a TXT question for _weird.U.<parent> of a username without registry
\* entry gets no answer from the registry stage, and the stage, once its
\* lookups have returned, is not held back and invokes the next stage.
C3_UnregisteredTxtNoAnswer ==
    \A i \in Idx : \A u \in Users :
        (/\ questions[i] = Question(TxtNameOf(u), "TXT")
         /\ RedisKey(u) \notin DOMAIN registry
         /\ "registry" \in ran)
        => /\ call[i] = "ok" /\ pc = "registry_wait" => results[i] = Null
           /\ (pc = "registry_wait" /\ \A j \in Idx : call[j] \in {"none", "ok"})
                 => AllSettled(results)
           /\ RegistryLeft =>
                 /\ results[i] = Null
                 /\ \A a \in Range(answers) : ~(a.name = TxtNameOf(u) /\ a.type = "TXT")
                 /\ nextCalls["registry"] = 1
                 /\ pc = NextHandler("registry")

C3_Witness ==
    /\ RegistryLeft
    /\ questions = <<Question(TxtNameOf("bob"), "TXT")>>
    /\ RedisKey("bob") \notin DOMAIN registry
    /\ redisCalls = {[op |-> "get", key |-> RedisKey("bob")]}
    /\ answers = <<>>
    /\ nextCalls["registry"] = 1

\* C4: a question whose registry call failed is treated as unanswered: its
\* promise is settled with "no answer", so the stage can complete.
C4_FailedLookupIsNoAnswer ==
    \A i \in Idx :
        (pc = "registry_wait" /\ call[i] = "failed") => results[i] = Null

\* C5: every step leaves the answers committed so far in place and in order:
\* the answer sequence only grows at its end.
C5_AnswersOnlyAppended == [][IsPrefix(answers, answers')]_vars

C5_Witness ==
    /\ dev
    /\ pc = "stopped"
    /\ Len(StaticAnswers) > 0
    /\ answers = StaticAnswers
    /\ nextCalls["registry"] = 1

\* C6: the registry stage entered with an answered response issues no registry
\* command and leaves the answers as they are; after the static stage produced
\* an answer the body of the registry stage never runs.
C6_RegistryNoOpWhenAnswered ==
    [][ /\ (pc = "registry" /\ Len(answers) > 0) =>
              /\ answers' = answers
              /\ redisCalls' = redisCalls
              /\ call' = call
              /\ results' = results
              /\ pc' # "registry_wait"
        /\ (Len(StaticAnswers) > 0 /\ pc # "static") =>
              /\ "registry" \notin ran'
              /\ redisCalls' = {} ]_vars

C6_Witness ==
    /\ Len(StaticAnswers) > 0
    /\ nextCalls["registry"] = 1
    /\ "registry" \notin ran
    /\ redisCalls = {}
    /\ answers = StaticAnswers
    /\ \E i \in Idx : ExpectedRegistryAnswers(questions[i]) # <<>>

\* C7: the registry stage and the forwarding stage, entered with an answered
\* response, both leave the answers alone and invoke the next stage.
C7_GuardedStagesProceed ==
    [][ (pc \in {"registry", "forwarder"} /\ Len(answers) > 0) =>
            /\ answers' = answers
            /\ nextCalls'[pc] = nextCalls[pc] + 1 ]_vars

\* C8 as stated: in a finished request of which the static stage resolved M
\* questions, 1 <= M < N, every other question the registry can resolve has
\* its registry answers in the response.
C8_RemainingLeftToRegistry ==
    (Final /\ StaticCount >= 1 /\ StaticCount < Len(questions)) =>
        \A i \in Idx : Range(ExpectedRegistryAnswers(questions[i])) \subseteq Range(answers)

\* C8 amended: once the static stage has resolved M of the N questions,
\* 1 <= M < N, the registry stage is skipped entirely: no registry command and
\* no upstream lookup is issued, and the response, up to and including the
\* final one, holds the static answers only.
C8_RemainingSkippedAfterStatic ==
    (pc # "static" /\ StaticCount >= 1 /\ StaticCount < Len(questions)) =>
        /\ "registry" \notin ran
        /\ "forwarder" \notin ran
        /\ redisCalls = {}
        /\ upstreamCalls = {}
        /\ answers = StaticAnswers
        /\ pc \in {"registry", "forwarder", "end", "stopped"}

C8_Witness ==
    /\ Final
    /\ StaticCount = 1
    /\ Len(questions) = 2
    /\ \E i \in Idx : /\ ExpectedRegistryAnswers(questions[i]) # <<>>
                      /\ ~(Range(ExpectedRegistryAnswers(questions[i])) \subseteq Range(answers))

\* C9: once nothing of the request is left to run (every lookup has returned a
\* value, absence or a failure), every stage of the pipeline has invoked
\* proceed exactly once.
ActiveStages == IF dev THEN Stages ELSE {"static", "registry"}

Quiescent ==
    \/ Final
    \/ /\ pc \in {"registry_wait", "forwarder_wait"}
       /\ \A i \in Idx : call[i] # "pending"
       /\ ~AllSettled(results)

C9_EveryStageProceedsOnce ==
    Quiescent => \A st \in ActiveStages : nextCalls[st] = 1

\* C10: a stage dispatches all its per-question lookups on entry, and neither
\* writes the answers nor invokes the next stage while one of them is
\* outstanding or one of its promises is unsettled; no stage is entered while
\* lookups of another are outstanding.
C10_ScatterJoin ==
    [][ /\ (pc = "registry" /\ pc' = "registry_wait") =>
              \A i \in Idx : ExpectedRegistryAnswers(questions[i]) # <<>> => call'[i] = "pending"
        /\ (pc = "forwarder" /\ pc' = "forwarder_wait") =>
              \A i \in Idx : questions[i].type \in {"TXT", "A"} => call'[i] = "pending"
        /\ (answers' # answers \/ nextCalls' # nextCalls \/ pc' # pc) =>
              /\ \A i \in Idx : call[i] # "pending"
              /\ pc \in {"registry_wait", "forwarder_wait"} => AllSettled(results) ]_vars

C10_Witness ==
    /\ pc = "registry_wait"
    /\ \E i, j \in Idx : call[i] = "ok" /\ call[j] = "pending"
    /\ answers = <<>>
    /\ nextCalls["registry"] = 0

\* labels that occur in the names of the question pool
PoolLabels == UNION { Range(q.name) : q \in QuestionPool }

\* the question has exactly the shape the registry stage serves
ExactShape(q) ==
    \/ q.type = "TXT" /\ \E u \in PoolLabels : q.name = <<"_weird">> \o <<u>> \o ParentDomain
    \/ q.type = "A" /\ \E u \in PoolLabels : q.name = <<u>> \o ParentDomain

\* C11: a question whose name is not exactly _weird, one label, parent domain
\* (TXT) or one label, parent domain (A) yields no username: the registry stage
\* issues no registry call for it and appends no answer for it.
C11_ExactMatchOnly ==
    ("registry" \in ran /\ "forwarder" \notin ran) =>
        \A i \in Idx :
            ~ExactShape(questions[i]) =>
                /\ call[i] = "none"
                /\ results[i] = Null
                /\ \A a \in Range(answers) :
                      ~(a.name = questions[i].name /\ a.type = questions[i].type)

C11_Witness ==
    /\ RegistryLeft
    /\ questions = <<Question(<<"_weird", "alice", "sub">> \o ParentDomain, "TXT"),
                     Question(<<"alice", "other", "com">>, "A")>>
    /\ RedisKey("alice") \in DOMAIN registry
    /\ registry[RedisKey("alice")] = "pk123"
    /\ redisCalls = {}
    /\ answers = <<>>

NsAnswer(q) == Answer(q.name, "NS", "127.0.0.1:53", 300)

\* C12: in dev mode an NS question that reaches the forwarding stage without
\* prior answers gets exactly one answer {name, NS, local server address,
\* ttl 300}, whatever the registry holds; the second completion by the
\* fall-through into the default case neither removes nor duplicates it.
C12_NsAnswerFabricatedOnce ==
    "forwarder" \in ran =>
        \A i \in Idx :
            questions[i].type = "NS" =>
                /\ dev
                /\ results[i] = List(<<NsAnswer(questions[i])>>)
                /\ pc = "end" =>
                      SelectSeq(answers, LAMBDA a : a.name = questions[i].name /\ a.type = "NS")
                        = Flat([j \in Idx |-> IF questions[j] = questions[i]
                                              THEN <<NsAnswer(questions[i])>> ELSE <<>>])

C12_Witness ==
    /\ dev
    /\ pc = "end"
    /\ questions = <<Question(<<"example", "org">>, "NS")>>
    /\ DOMAIN registry = { RedisKey("alice"), RedisKey("bob") }
    /\ answers = <<NsAnswer(questions[1])>>
    /\ nextCalls["forwarder"] = 1

\* what the forwarding stage owes question i, given how its upstream call ended
ExpectedForward(i) ==
    CASE call[i] = "ok" ->
            [k \in 1..Len(UpstreamRecords(questions[i].name, questions[i].type)) |->
                Answer(questions[i].name, questions[i].type,
                       UpstreamRecords(questions[i].name, questions[i].type)[k], 300)]
      [] questions[i].type = "NS" -> <<NsAnswer(questions[i])>>
      [] OTHER -> <<>>

\* C13: in the forwarding stage a failed upstream lookup gives an empty answer
\* list for its question only: the stage completes, the answers of the other
\* questions are written to the response and the next stage is invoked.
C13_UpstreamFailureSwallowed ==
    "forwarder" \in ran =>
        /\ \A i \in Idx : call[i] = "failed" => results[i] = List(<<>>)
        /\ (pc = "forwarder_wait" /\ \A j \in Idx : call[j] # "pending") => AllSettled(results)
        /\ pc = "end" =>
              /\ nextCalls["forwarder"] = 1
              /\ answers = Flat([i \in Idx |-> ExpectedForward(i)])

C13_Witness ==
    /\ pc = "end"
    /\ "forwarder" \in ran
    /\ Len(questions) = 2
    /\ call[1] = "failed"
    /\ call[2] = "ok"
    /\ answers = ExpectedForward(2)
    /\ Len(answers) = 1
    /\ nextCalls["forwarder"] = 1

\* C14: in production mode the forwarding stage does not exist: no request
\* causes an upstream lookup or a fabricated NS answer, the chain is static
\* then registry, and a request that neither of them answers ends with an
\* empty answer set.
C14_NoForwarderInProduction ==
    ~dev =>
        /\ upstreamCalls = {}
        /\ "forwarder" \notin ran
        /\ nextCalls["forwarder"] = 0
        /\ pc \in {"static", "registry", "registry_wait", "end"}
        /\ \A a \in Range(answers) : a.type # "NS" /\ a.data # "127.0.0.1:53"
        /\ pc = "end" =>
              /\ nextCalls["static"] = 1
              /\ nextCalls["registry"] = 1
              /\ (\A i \in Idx : /\ StaticLookup(questions[i]) = <<>>
                                 /\ ExpectedRegistryAnswers(questions[i]) = <<>>)
                     => answers = <<>>

C14_Witness ==
    /\ ~dev
    /\ pc = "end"
    /\ questions = <<Question(<<"example", "org">>, "NS"), Question(<<"example", "org">>, "A")>>
    /\ answers = <<>>
    /\ nextCalls = [st \in Stages |-> IF st = "forwarder" THEN 0 ELSE 1]

\* C15: the answers the registry stage appends are the concatenation, in
\* question order, of what each question is owed by the registry alone; the
\* order in which the lookups complete does not show, and a question without
\* result takes nothing away from the others.
C15_AnswersInQuestionOrder ==
    RegistryLeft =>
        answers = Flat([i \in Idx |-> ExpectedRegistryAnswers(questions[i])])

C15_Witness ==
    /\ RegistryLeft
    /\ questions = <<Question(ANameOf("bob"), "A"), Question(TxtNameOf("alice"), "TXT")>>
    /\ RedisKey("bob") \in DOMAIN registry
    /\ RedisKey("alice") \in DOMAIN registry
    /\ registry[RedisKey("alice")] = "pk123"
    /\ answers = ExpectedA("bob") \o <<Answer(TxtNameOf("alice"), "TXT", "pk123", 0)>>

\* C16: in dev mode the upstream list is the one configured before the process
\* installed itself as system resolver, and every forwarded lookup goes to a
\* resolver set to that list: none is sent to the local server address.
C16_ForwardedToCapturedUpstreams ==
    dev =>
        /\ systemServers = <<"127.0.0.1:53">>
        /\ defaultDnsServers = OriginalDnsServers
        /\ \A c \in upstreamCalls :
              /\ c.servers = OriginalDnsServers
              /\ "127.0.0.1:53" \notin Range(c.servers)

C16_Witness ==
    /\ dev
    /\ pc = "end"
    /\ systemServers = <<"127.0.0.1:53">>
    /\ upstreamCalls = {[name |-> <<"example", "org">>, type |-> "A",
                         servers |-> <<"8.8.8.8", "1.1.1.1">>]}
    /\ Len(answers) = 1

RegistryOwed == Flat([i \in Idx |-> ExpectedRegistryAnswers(questions[i])])

\* C17: at most one stage contributes answers to a response: a stage writes
\* only to an empty answer list, so after the static stage answered the
\* response stays at the static answers, and after the registry stage answered
\* it stays at the registry answers and the forwarder issues no lookup.
C17_SingleContributingStage ==
    [][ /\ answers' # answers => answers = <<>>
        /\ (pc' # "static" /\ Len(StaticAnswers) > 0) => answers' = StaticAnswers
        /\ ("registry" \in ran' /\ pc' # "registry_wait" /\ Len(RegistryOwed) > 0) =>
              /\ answers' = RegistryOwed
              /\ "forwarder" \notin ran'
              /\ upstreamCalls' = {} ]_vars

C17_Witness ==
    /\ dev
    /\ Final
    /\ questions = <<Question(ANameOf("alice"), "A"), Question(<<"example", "org">>, "A")>>
    /\ RedisKey("alice") \in DOMAIN registry
    /\ answers = ExpectedA("alice")
    /\ upstreamCalls = {}

\* C18: the A answer depends on the existence of the user's key only, the TXT
\* answer on its value being non-empty: a user registered with the empty
\* string gets A answers and no TXT answer; for any other user the TXT
\* question is answered exactly when the A question is.
C18_ExistenceVersusValue ==
    RegistryLeft =>
        \A u \in Users :
            LET registered == RedisKey(u) \in DOMAIN registry
                emptyValue == registered /\ registry[RedisKey(u)] = ""
            IN  /\ \A i \in Idx :
                      /\ questions[i] = Question(TxtNameOf(u), "TXT") =>
                            (results[i] # Null <=> (registered /\ ~emptyValue))
                      /\ questions[i] = Question(ANameOf(u), "A") =>
                            (results[i] # Null <=> registered)
                /\ \A i, j \in Idx :
                      (/\ questions[i] = Question(TxtNameOf(u), "TXT")
                       /\ questions[j] = Question(ANameOf(u), "A")) =>
                          IF emptyValue
                          THEN results[i] = Null /\ results[j] = List(ExpectedA(u))
                          ELSE (results[i] = Null <=> results[j] = Null)

C18_Witness ==
    /\ RegistryLeft
    /\ questions = <<Question(TxtNameOf("alice"), "TXT"), Question(ANameOf("alice"), "A")>>
    /\ RedisKey("alice") \in DOMAIN registry
    /\ registry[RedisKey("alice")] = ""
    /\ answers = ExpectedA("alice")

\* C19: the registry is never asked for an empty username: every registry
\* command of a request has the key prefix + one non-empty label taken from a
\* question of that request, and a question with an empty username label gets
\* no registry call.
C19_NoEmptyUsernameLookup ==
    /\ \A c \in redisCalls :
          /\ c.key # <<"weird:users:", "">>
          /\ \E i \in Idx : \E u \in PoolLabels \ {""} :
                /\ c.key = <<"weird:users:", u>>
                /\ \/ c.op = "get" /\
                      questions[i] = Question(<<"_weird">> \o <<u>> \o ParentDomain, "TXT")
                   \/ c.op = "exists" /\
                      questions[i] = Question(<<u>> \o ParentDomain, "A")
    /\ ("registry" \in ran /\ "forwarder" \notin ran) =>
          \A i \in Idx :
              questions[i] \in { Question(TxtNameOf(""), "TXT"), Question(ANameOf(""), "A") }
                  => call[i] = "none" /\ results[i] = Null

C19_Witness ==
    /\ RegistryLeft
    /\ questions = <<Question(TxtNameOf(""), "TXT"), Question(ANameOf("alice"), "A")>>
    /\ redisCalls = {[op |-> "exists", key |-> RedisKey("alice")]}
    /\ call = <<"none", "ok">>

====
